---- MODULE Spec2Model ----
EXTENDS Integers, Naturals, Sequences, FiniteSets, TLC

\* Vendor-metadata retrieval and cache layer of openlibrary/core/vendors.py.
\* Requests run concurrently and share memcache: a call reads memcache, waits
\* on the vendor, stores, and other requests interleave at every wait.

VARIABLES cache, hist, pc, bcache, bhist, bpc, clk, inp, out

vars == <<cache, hist, pc, bcache, bhist, bpc, clk, inp, out>>

\* Calls (and expiries) recorded per run; bounds the number of requests.
MaxHist == 3

\* Cache keys: the arguments of cached_get_amazon_metadata (id_type 'isbn').
Keys == {<<"0140328726", "isbn">>, <<"12345", "isbn">>}

\* Concurrent request handlers.
Procs == {"p1", "p2"}

\* Cache slot values. "absent": no memcache entry; "none": the value None;
\* "empty": {"title": "Foo", "price": None}; "full": a priced metadata dict.
Absent == "absent"
NoneV == "none"
EmptyV == "empty"
FullV == "full"
Raised == "raise"

\* Identifiers handed to the lookups ("None" is the Python value None).
IdInputs == {"0140328726", "978-0-14-032872-1", "12345", "", "None"}

\* openlibrary.utils.isbn.normalize_isbn: strips spaces and dashes; a
\* malformed identifier fails (FormatError), and None has no string methods.
NormalizeIsbn(id) ==
    CASE id = "0140328726"        -> "0140328726"
      [] id = "978-0-14-032872-1" -> "9780140328721"
      [] OTHER                    -> Raised

\* Python truthiness of an identifier.
Truthy(id) == id \notin {"", "None"}

\* What the Amazon API does for one lookup: throttles (503), answers with a
\* priced product, with a product without offers, or with an OfferSummary
\* lacking TotalNew (int(None) in _serialize_amazon_product raises).
VendorResponses == {"throttled", "ok_priced", "ok_unpriced", "serialize_error"}

\* _get_amazon_metadata: normalize_isbn runs outside the try; lookup failures
\* are swallowed into None; a found product is serialized.
GetAmazonMetadata(id, idtype, resp) ==
    IF idtype = "isbn" /\ NormalizeIsbn(id) = Raised
    THEN Raised
    ELSE CASE resp = "throttled"       -> NoneV
           [] resp = "ok_priced"       -> FullV
           [] resp = "ok_unpriced"     -> EmptyV
           [] resp = "serialize_error" -> Raised

\* Line 242 with the None test dropped: update runs after every memoized call.
NeedsUpdateAlways(res) == TRUE

\* Line 242: the wrapper calls update when the memoized call gave None.
NeedsUpdate(res) == res = NoneV

\* get_amazon_metadata's except clause: an exception becomes None.
PublicResult(res) == IF res = Raised THEN NoneV ELSE res

AmzIdle == [st |-> "idle", idx |-> 0]

Init ==
    /\ cache = [k \in Keys |-> Absent]
    /\ hist = <<>>
    /\ pc = [p \in Procs |-> AmzIdle]
    /\ bcache = Absent
    /\ bhist = <<>>
    /\ bpc = [p \in Procs |-> AmzIdle]
    /\ clk = 1
    /\ inp = "none"
    /\ out = "pending"

\* get_amazon_metadata(id_) with a truthy id_: cached_get_amazon_metadata
\* calls memcache_memoize.__call__, which reads memcache. A miss starts the
\* memoized fetch; a stored value is returned, and when it is None the
\* wrapper starts update's fetch.
Start(p, k) ==
    /\ pc[p].st = "idle"
    /\ Len(hist) < MaxHist
    /\ LET c == cache[k]
           i == Len(hist) + 1
           st == IF c = Absent THEN "memo_fetch"
                 ELSE IF NeedsUpdate(c) THEN "upd_fetch" ELSE "idle"
       IN /\ hist' = Append(hist, [kind |-> "call", proc |-> p, key |-> k, before |-> c,
                                   fetches |-> <<>>,
                                   result |-> IF st = "idle" THEN c ELSE "pending",
                                   pub |-> IF st = "idle" THEN PublicResult(c) ELSE "pending",
                                   start |-> clk, end |-> IF st = "idle" THEN clk ELSE -1])
          /\ pc' = [pc EXCEPT ![p] = [st |-> st, idx |-> IF st = "idle" THEN 0 ELSE i]]
    /\ clk' = clk + 1
    /\ UNCHANGED <<cache, bcache, bhist, bpc, inp, out>>

\* get_amazon_metadata('') or (None): returns None without touching memcache.
StartFalsy(p) ==
    /\ pc[p].st = "idle"
    /\ Len(hist) < MaxHist
    /\ hist' = Append(hist, [kind |-> "falsy", proc |-> p, key |-> <<"", "isbn">>,
                             before |-> Absent, fetches |-> <<>>, result |-> NoneV,
                             pub |-> NoneV, start |-> clk, end |-> clk])
    /\ clk' = clk + 1
    /\ UNCHANGED <<cache, pc, bcache, bhist, bpc, inp, out>>

\* The memoized fetch (_get_amazon_metadata) returns: its value is stored
\* (memcache_memoize.update); if it is None the wrapper calls update, whose
\* fetch starts; an exception propagates and get_amazon_metadata gives None.
MemoFetchDone(p) ==
    /\ pc[p].st = "memo_fetch"
    /\ LET i == pc[p].idx
           k == hist[i].key
       IN \E r \in VendorResponses :
          LET v == GetAmazonMetadata(k[1], k[2], r)
              fin == v = Raised \/ ~NeedsUpdate(v)
          IN /\ cache' = IF v = Raised THEN cache ELSE [cache EXCEPT ![k] = v]
             /\ hist' = [hist EXCEPT ![i] = [@ EXCEPT
                           !.fetches = Append(@, v),
                           !.result = IF fin THEN v ELSE "pending",
                           !.pub = IF fin THEN PublicResult(v) ELSE "pending",
                           !.end = IF fin THEN clk ELSE -1]]
             /\ pc' = [pc EXCEPT ![p] = IF fin THEN AmzIdle ELSE [st |-> "upd_fetch", idx |-> i]]
    /\ clk' = clk + 1
    /\ UNCHANGED <<bcache, bhist, bpc, inp, out>>

\* update's fetch returns: its value is stored and returned.
UpdFetchDone(p) ==
    /\ pc[p].st = "upd_fetch"
    /\ LET i == pc[p].idx
           k == hist[i].key
       IN \E r \in VendorResponses :
          LET v == GetAmazonMetadata(k[1], k[2], r) IN
          /\ cache' = IF v = Raised THEN cache ELSE [cache EXCEPT ![k] = v]
          /\ hist' = [hist EXCEPT ![i] = [@ EXCEPT
                        !.fetches = Append(@, v), !.result = v,
                        !.pub = PublicResult(v), !.end = clk]]
    /\ pc' = [pc EXCEPT ![p] = AmzIdle]
    /\ clk' = clk + 1
    /\ UNCHANGED <<bcache, bhist, bpc, inp, out>>

\* memcache drops the entry when its timeout (dateutil.WEEK_SECS) elapses.
Expire(k) ==
    /\ Len(hist) < MaxHist
    /\ cache[k] # Absent
    /\ cache' = [cache EXCEPT ![k] = Absent]
    /\ hist' = Append(hist, [kind |-> "expire", proc |-> "memcache", key |-> k,
                             before |-> cache[k], fetches |-> <<>>, result |-> Absent,
                             pub |-> Absent, start |-> clk, end |-> clk])
    /\ clk' = clk + 1
    /\ UNCHANGED <<pc, bcache, bhist, bpc, inp, out>>

Next ==
    \/ \E p \in Procs : \/ \E k \in Keys : Start(p, k)
                        \/ StartFalsy(p) \/ MemoFetchDone(p) \/ UpdFetchDone(p)
    \/ \E k \in Keys : Expire(k)

Spec == Init /\ [][Next]_vars

\* Processes waiting on an Amazon fetch for key k.
InFlight(k) == {p \in Procs : pc[p].st \in {"memo_fetch", "upd_fetch"}
                              /\ hist[pc[p].idx].key = k}

\* ---- BetterWorldBooks. cached_get_betterworldbooks_metadata is
\* memcache_memoize(_get_betterworldbooks_metadata); get_betterworldbooks_metadata
\* calls _get_betterworldbooks_metadata directly.

\* What the BWB endpoint does: answers, fails with an HTTPError whose body is
\* JSON, with an HTTPError whose body is not JSON, or fails below HTTP
\* (URLError, which is not an HTTPError).
BwbResponses == {"ok", "http_json", "http_nonjson", "url_error"}

\* _get_betterworldbooks_metadata: an answer gives the price dict; an
\* HTTPError gives simplejson.loads(e.read()), which raises on a non-JSON
\* body (only e.read() is inside the JSONDecodeError handler); a URLError
\* propagates.
GetBwbMetadata(resp) ==
    CASE resp = "ok"           -> "price_dict"
      [] resp = "http_json"    -> "error_dict"
      [] resp = "http_nonjson" -> Raised
      [] resp = "url_error"    -> Raised

BwbRec(kind, p, id, before) ==
    [kind |-> kind, proc |-> p, id |-> id, before |-> before, fetched |-> FALSE,
     resp |-> "none", result |-> "pending", pub |-> "pending", start |-> clk, end |-> -1]

\* cached_get_betterworldbooks_metadata(isbn): memcache read; a miss starts
\* the HTTP request, a stored value is returned.
BwbStartCached(p) ==
    /\ bpc[p].st = "idle"
    /\ Len(bhist) < MaxHist
    /\ LET r == BwbRec("cached", p, "0140328726", bcache) IN
       IF bcache = Absent
       THEN /\ bhist' = Append(bhist, r)
            /\ bpc' = [bpc EXCEPT ![p] = [st |-> "fetch_cached", idx |-> Len(bhist) + 1]]
       ELSE /\ bhist' = Append(bhist, [r EXCEPT !.result = bcache, !.end = clk])
            /\ UNCHANGED bpc
    /\ clk' = clk + 1
    /\ UNCHANGED <<cache, hist, pc, bcache, inp, out>>

\* The memoized request completes: a returned value is stored, an exception
\* propagates and nothing is stored.
BwbFetchCachedDone(p) ==
    /\ bpc[p].st = "fetch_cached"
    /\ LET i == bpc[p].idx IN
       \E r \in BwbResponses :
         LET v == GetBwbMetadata(r) IN
         /\ bcache' = IF v = Raised THEN bcache ELSE v
         /\ bhist' = [bhist EXCEPT ![i] = [@ EXCEPT !.fetched = TRUE, !.resp = r,
                                                  !.result = v, !.end = clk]]
    /\ bpc' = [bpc EXCEPT ![p] = AmzIdle]
    /\ clk' = clk + 1
    /\ UNCHANGED <<cache, hist, pc, inp, out>>

\* get_betterworldbooks_metadata(isbn): normalize_isbn runs before the try
\* (its failure propagates); a falsy result gives None; otherwise the
\* uncached request starts.
BwbStartPublic(p) ==
    /\ bpc[p].st = "idle"
    /\ Len(bhist) < MaxHist
    /\ \E id \in IdInputs :
         LET n == NormalizeIsbn(id)
             r == BwbRec("public", p, id, bcache)
         IN IF n = Raised \/ ~Truthy(n)
            THEN /\ bhist' = Append(bhist, [r EXCEPT !.pub = IF n = Raised THEN Raised ELSE NoneV,
                                                   !.end = clk])
                 /\ UNCHANGED bpc
            ELSE /\ bhist' = Append(bhist, r)
                 /\ bpc' = [bpc EXCEPT ![p] = [st |-> "fetch_public", idx |-> Len(bhist) + 1]]
    /\ clk' = clk + 1
    /\ UNCHANGED <<cache, hist, pc, bcache, inp, out>>

\* The uncached request completes; an exception inside the try gives {}.
BwbFetchPublicDone(p) ==
    /\ bpc[p].st = "fetch_public"
    /\ LET i == bpc[p].idx IN
       \E r \in BwbResponses :
         LET v == GetBwbMetadata(r) IN
         bhist' = [bhist EXCEPT ![i] = [@ EXCEPT !.fetched = TRUE, !.resp = r,
                      !.result = v, !.pub = IF v = Raised THEN "empty_dict" ELSE v,
                      !.end = clk]]
    /\ bpc' = [bpc EXCEPT ![p] = AmzIdle]
    /\ clk' = clk + 1
    /\ UNCHANGED <<cache, hist, pc, bcache, inp, out>>

\* memcache drops the entry after dateutil.HALF_DAY_SECS.
BwbExpire ==
    /\ Len(bhist) < MaxHist
    /\ bcache # Absent
    /\ bcache' = Absent
    /\ bhist' = Append(bhist, [BwbRec("expire", "memcache", "0140328726", bcache)
                                 EXCEPT !.result = Absent, !.end = clk])
    /\ clk' = clk + 1
    /\ UNCHANGED <<cache, hist, pc, bpc, inp, out>>

NextBwb ==
    \/ \E p \in Procs : \/ BwbStartCached(p) \/ BwbFetchCachedDone(p)
                        \/ BwbStartPublic(p) \/ BwbFetchPublicDone(p)
    \/ BwbExpire

SpecBwb == Init /\ [][NextBwb]_vars

\* Records i < j are two calls on the same key where i ended before j
\* started and no other call or expiry on that key overlaps them.
SameKeyNext(i, j) ==
    /\ 1 <= i /\ i < j /\ j <= Len(hist)
    /\ hist[i].kind = "call" /\ hist[j].kind = "call"
    /\ hist[i].key = hist[j].key
    /\ hist[i].end >= 0 /\ hist[j].end >= 0
    /\ hist[i].end < hist[j].start
    /\ \A m \in 1..Len(hist) \ {i, j} :
         hist[m].key = hist[i].key =>
            \/ hist[m].start > hist[j].end
            \/ (hist[m].end >= 0 /\ hist[m].end < hist[i].start)

Pairs == {<<i, j>> \in (1..Len(hist)) \X (1..Len(hist)) : SameKeyNext(i, j)}

NFetch(i, j) == Len(hist[i].fetches) + Len(hist[j].fetches)

\* C1 (as stated): two consecutive calls with the same arguments, starting
\* from a cache miss and with no expiry in between, invoke the fetch
\* _get_amazon_metadata exactly once in total.
C1_IdempotenceAsStated ==
    \A p \in Pairs : hist[p[1]].before = Absent => NFetch(p[1], p[2]) = 1

\* C1 (amended): two consecutive calls with the same arguments, starting from
\* a miss or a stored None and with no expiry or other call on the key in
\* between, invoke the fetch exactly once in total when the first fetch
\* returns a non-None value.
C1_Idempotence ==
    \A p \in Pairs :
        /\ hist[p[1]].before \in {Absent, NoneV}
        /\ hist[p[1]].fetches # <<>>
        /\ hist[p[1]].fetches[1] \in {EmptyV, FullV}
        => NFetch(p[1], p[2]) = 1

C1_Witness ==
    \E p \in Pairs :
        /\ hist[p[1]].before = Absent
        /\ hist[p[1]].fetches[1] = EmptyV
        /\ NFetch(p[1], p[2]) = 1

\* C2 (as stated): a None fetch result is never served from cache (the next
\* call on the key fetches again); a non-None result is served from cache by
\* the next call on the key without a fetch; and a caller whose fetch is
\* throttled (returns None) gets None, so in "throttle, then succeed" the
\* first caller gets None and the second caller's result is cached.
C2_NullSentinel ==
    /\ \A p \in Pairs :
         hist[p[1]].result = NoneV => Len(hist[p[2]].fetches) >= 1
    /\ \A p \in Pairs :
         hist[p[1]].result \in {EmptyV, FullV} =>
            /\ hist[p[2]].fetches = <<>>
            /\ hist[p[2]].result = hist[p[1]].result
    /\ \A i \in 1..Len(hist) :
         /\ hist[i].kind = "call"
         /\ hist[i].end >= 0
         /\ hist[i].fetches # <<>>
         /\ hist[i].fetches[1] = NoneV
         => hist[i].result = NoneV

\* C3 (as stated): no key is ever stored with the value None, and a call on
\* a miss invokes the fetch at most once.
C3_NoNoneStored ==
    /\ \A k \in Keys : cache[k] # NoneV
    /\ \A i \in 1..Len(hist) :
         hist[i].kind = "call" /\ hist[i].before = Absent
            => Len(hist[i].fetches) <= 1

\* ---- _serialize_amazon_product. Python values of the output dict are tagged
\* so that None, strings, ints, lists and dicts stay distinguishable.

PyNone == [t |-> "none", v |-> "None"]
PyStr(x) == [t |-> "str", v |-> x]
PyInt(n) == [t |-> "int", v |-> n]
PyList(xs) == [t |-> "list", v |-> xs]
PyDict(f) == [t |-> "dict", v |-> f]
IsNone(x) == x.t = "none"

\* Text of an element that may be missing ("None").
StrOrNone(x) == IF x = "None" THEN PyNone ELSE PyStr(x)

\* Python truthiness of element text.
TruthyStr(x) == x \notin {"None", ""}

\* int() of the element texts the vendor returns.
NumStrings == {"0", "1", "2", "300", "500", "1250"}
IntOf(x) ==
    CASE x = "0" -> 0 [] x = "1" -> 1 [] x = "2" -> 2
      [] x = "300" -> 300 [] x = "500" -> 500 [] x = "1250" -> 1250

Pad2(n) == IF n < 10 THEN "0" \o ToString(n) ELSE ToString(n)
Pad3(n) == IF n < 10 THEN "00" \o ToString(n)
           ELSE IF n < 100 THEN "0" \o ToString(n) ELSE ToString(n)

RECURSIVE Thousands(_)
Thousands(n) ==
    IF n < 1000 THEN ToString(n) ELSE Thousands(n \div 1000) \o "," \o Pad3(n % 1000)

\* '{:00,.2f}'.format(int(price)/100.)
FormatAmount(n) == Thousands(n \div 100) \o "." \o Pad2(n % 100)

\* Lines 66-80: headline price from the lowest used and new offer prices.
AmazonPriceSelect(used, new) ==
    LET sel == IF TruthyStr(used) /\ TruthyStr(new)
               THEN IF IntOf(used) < IntOf(new) THEN <<used, "used">> ELSE <<new, "new">>
               ELSE IF TruthyStr(used) \/ TruthyStr(new)
                    THEN IF TruthyStr(used) THEN <<used, "used">> ELSE <<new, "new">>
                    ELSE <<"None", "None">>
        price == sel[1]
        qlt == sel[2]
    IN IF TruthyStr(price)
       THEN [price |-> PyStr("$" \o FormatAmount(IntOf(price)) \o " (" \o qlt \o ")"),
             price_amt |-> PyStr(FormatAmount(IntOf(price))),
             qlt |-> PyStr(qlt)]
       ELSE [price |-> PyNone, price_amt |-> PyNone, qlt |-> StrOrNone(qlt)]

\* Digits of an ISBN as a string.
RECURSIVE DigStr(_)
DigStr(ds) ==
    IF ds = <<>> THEN ""
    ELSE (IF Head(ds) = 10 THEN "X" ELSE ToString(Head(ds))) \o DigStr(Tail(ds))

RECURSIVE WeightedSum(_, _)
WeightedSum(ds, w) ==
    IF ds = <<>> THEN 0 ELSE w[1] * Head(ds) + WeightedSum(Tail(ds), Tail(w))

\* openlibrary.utils.isbn.isbn_10_to_isbn_13: "978" + first nine digits +
\* the EAN-13 check digit.
Isbn10To13(ds) ==
    LET core == <<9, 7, 8>> \o SubSeq(ds, 1, 9)
        s == WeightedSum(core, <<1, 3, 1, 3, 1, 3, 1, 3, 1, 3, 1, 3>>)
    IN core \o <<(10 - (s % 10)) % 10>>

\* openlibrary.utils.isbn.isbn_13_to_isbn_10: digits 4..12 + the ISBN-10
\* check digit (10 printed as X).
Isbn13To10(ds) ==
    LET core == SubSeq(ds, 4, 12)
        s == WeightedSum(core, <<10, 9, 8, 7, 6, 5, 4, 3, 2>>)
    IN core \o <<(11 - (s % 11)) % 11>>

IsbnStrList(ds) == PyList(<<PyStr(DigStr(ds))>>)

\* Lines 123-131 with the '978' test made '979'.
IsbnEntries979(isbn) ==
    IF Len(isbn) = 10
    THEN [isbn_10 |-> IsbnStrList(isbn), isbn_13 |-> IsbnStrList(Isbn10To13(isbn))]
    ELSE IF Len(isbn) = 13
         THEN IF SubSeq(isbn, 1, 3) = <<9, 7, 9>>
              THEN [isbn_13 |-> IsbnStrList(isbn), isbn_10 |-> IsbnStrList(Isbn13To10(isbn))]
              ELSE [isbn_13 |-> IsbnStrList(isbn)]
         ELSE <<>>

\* Lines 123-131: ISBN fields; an empty isbn (falsy) adds nothing.
IsbnEntries(isbn) ==
    IF Len(isbn) = 10
    THEN [isbn_10 |-> IsbnStrList(isbn), isbn_13 |-> IsbnStrList(Isbn10To13(isbn))]
    ELSE IF Len(isbn) = 13
         THEN IF SubSeq(isbn, 1, 3) = <<9, 7, 8>>
              THEN [isbn_13 |-> IsbnStrList(isbn), isbn_10 |-> IsbnStrList(Isbn13To10(isbn))]
              ELSE [isbn_13 |-> IsbnStrList(isbn)]
         ELSE <<>>

Months == <<"Jan", "Feb", "Mar", "Apr", "May", "Jun",
            "Jul", "Aug", "Sep", "Oct", "Nov", "Dec">>

\* Lines 113-116: strftime('%b %d, %Y') after 1900, else str(year).
PublishDateEntries(d) ==
    IF d.present
    THEN [publish_date |-> PyStr(IF d.y > 1900
                                 THEN Months[d.m] \o " " \o Pad2(d.d) \o ", " \o ToString(d.y)
                                 ELSE ToString(d.y))]
    ELSE <<>>

\* str.lower() of the binding texts the vendor sends (BindingInputs).
Lower(x) ==
    CASE x = "Paperback" -> "paperback"
      [] x = "Hardcover" -> "hardcover"
      [] x = "Kindle Edition" -> "kindle edition"
      [] x = "Mass Market Paperback" -> "mass market paperback"

\* Lines 117-118 with the truthiness test dropped.
PhysicalFormatEntriesAlways(binding) ==
    [physical_format |-> IF TruthyStr(binding) THEN PyStr(Lower(binding)) ELSE PyNone]

\* Lines 117-118.
PhysicalFormatEntries(binding) ==
    IF TruthyStr(binding) THEN [physical_format |-> PyStr(Lower(binding))] ELSE <<>>

\* Lines 119-122.
EditionEntries(edition) ==
    IF TruthyStr(edition) THEN [edition |-> PyStr(edition)] ELSE <<>>
PublisherEntries(publisher) ==
    IF TruthyStr(publisher) THEN [publishers |-> PyList(<<PyStr(publisher)>>)] ELSE <<>>

\* Lines 96-111: int() of a missing TotalNew/TotalUsed/TotalCollectible raises.
OfferSummaryRaises(o) ==
    o.present /\ \E x \in {o.tnew, o.tused, o.tcoll} : ~TruthyStr(x)

OfferSummaryEntries(o) ==
    IF o.present
    THEN [offer_summary |-> PyDict(
            [total_new |-> PyInt(IntOf(o.tnew)), total_used |-> PyInt(IntOf(o.tused)),
             total_collectible |-> PyInt(IntOf(o.tcoll))]
            @@ (IF TruthyStr(o.new) THEN [lowest_new |-> PyInt(IntOf(o.new))] ELSE <<>>)
            @@ (IF TruthyStr(o.used) THEN [lowest_used |-> PyInt(IntOf(o.used))] ELSE <<>>)
            @@ (IF TruthyStr(o.coll) THEN [lowest_collectible |-> PyInt(IntOf(o.coll))] ELSE <<>>)
            @@ (IF TruthyStr(o.offers) THEN [amazon_offers |-> PyInt(IntOf(o.offers))] ELSE <<>>))]
    ELSE <<>>

\* helpers.affiliate_id: the affiliate tag configured for a vendor.
AffiliateId(vendor) == IF vendor = "amazon" THEN "openlibrary-20" ELSE "2448237"

\* _serialize_amazon_product (no exception case, see OfferSummaryRaises).
SerializeAmazonProduct(p) ==
    LET pr == AmazonPriceSelect(p.offer.used, p.offer.new)
        base == [url |-> PyStr("https://www.amazon.com/dp/" \o p.asin \o "/?tag="
                               \o AffiliateId("amazon")),
                 price |-> pr.price,
                 price_amt |-> pr.price_amt,
                 qlt |-> pr.qlt,
                 title |-> StrOrNone(p.title),
                 authors |-> PyList([i \in 1..Len(p.authors) |->
                                        PyDict([name |-> PyStr(p.authors[i])])]),
                 source_records |-> PyList(<<PyStr("amazon:" \o p.asin)>>),
                 number_of_pages |-> StrOrNone(p.pages),
                 languages |-> PyList([i \in 1..Len(p.languages) |-> PyStr(p.languages[i])]),
                 cover |-> StrOrNone(p.cover),
                 product_group |-> StrOrNone(p.pgroup)]
    IN base @@ OfferSummaryEntries(p.offer) @@ PublishDateEntries(p.pubdate)
            @@ PhysicalFormatEntries(p.binding) @@ EditionEntries(p.edition)
            @@ PublisherEntries(p.publisher) @@ IsbnEntries(p.isbn)

IsbnInputs ==
    { <<0, 1, 4, 0, 3, 2, 8, 7, 2, 6>>,
      <<9, 7, 8, 0, 1, 4, 0, 3, 2, 8, 7, 2, 1>>,
      <<9, 7, 9, 1, 0, 3, 2, 4, 5, 6, 7, 8, 3>>,
      <<9, 7, 8, 0, 1, 4, 0, 3, 2, 8, 7, 2>>,
      <<>> }

NoOffer == [present |-> FALSE, tnew |-> "None", tused |-> "None", tcoll |-> "None",
            used |-> "None", new |-> "None", coll |-> "None", offers |-> "None"]

OfferInputs ==
    {NoOffer}
    \cup {[present |-> TRUE, tnew |-> tn, tused |-> "1", tcoll |-> "0",
           used |-> u, new |-> n, coll |-> "None", offers |-> of] :
            tn \in {"1", "None"}, u \in {"None", "300", "1250"},
            n \in {"None", "300", "500"}, of \in {"None", "2"}}

NoDate == [present |-> FALSE, y |-> 0, m |-> 1, d |-> 1]

ProductInputs ==
    [asin : {"0140328726"}, title : {"Matilda", "None"},
     authors : {<<"Roald Dahl">>}, pages : {"240", "None"},
     languages : {<<"English">>}, cover : {"None", "https://images/m.jpg"},
     pgroup : {"Book", "None"},
     pubdate : {NoDate, [present |-> TRUE, y |-> 1988, m |-> 10, d |-> 1],
                [present |-> TRUE, y |-> 1850, m |-> 1, d |-> 1]},
     binding : {"Paperback", "Hardcover", "None"}, edition : {"None", "Reprint"},
     publisher : {"Puffin", "None"}, isbn : IsbnInputs, offer : OfferInputs]

InitSerialize ==
    /\ cache = [k \in Keys |-> Absent]
    /\ hist = <<>>
    /\ pc = [p \in Procs |-> AmzIdle]
    /\ bcache = Absent
    /\ bhist = <<>>
    /\ bpc = [p \in Procs |-> AmzIdle]
    /\ clk = 1
    /\ inp \in ProductInputs
    /\ out = [status |-> "pending", val |-> <<>>]

Serialize ==
    /\ out.status = "pending"
    /\ out' = IF OfferSummaryRaises(inp.offer)
              THEN [status |-> "raised", val |-> <<>>]
              ELSE [status |-> "ok", val |-> SerializeAmazonProduct(inp)]
    /\ UNCHANGED <<cache, hist, pc, bcache, bhist, bpc, clk, inp>>

SpecSerialize == InitSerialize /\ [][Serialize]_vars

\* ---- _get_betterworldbooks_metadata on an answered request. Each regex
\* result is the list of matches: quantities are digit strings, prices digit
\* sequences.

RECURSIVE StrLt(_, _)
\* Python '<' on strings of digits: lexicographic.
StrLt(a, b) ==
    IF b = <<>> THEN FALSE
    ELSE IF a = <<>> THEN TRUE
    ELSE IF Head(a) # Head(b) THEN Head(a) < Head(b)
    ELSE StrLt(Tail(a), Tail(b))

RECURSIVE Val(_)
Val(ds) == IF ds = <<>> THEN 0 ELSE Val(SubSeq(ds, 1, Len(ds) - 1)) * 10 + ds[Len(ds)]

\* A Python price value: None or a string of digits.
PNone == [none |-> TRUE, s |-> <<>>]
PStr(ds) == [none |-> FALSE, s |-> ds]
PTruthy(x) == ~x.none /\ x.s # <<>>

\* Lines 286-299 and the returned dict.
BwbPriceSelect(isbn, usedQty, newQty, usedPrice, newPrice) ==
    LET p1 == IF Len(usedQty) > 0 /\ usedQty[1] # "" /\ usedQty[1] # "0"
              THEN [price |-> IF Len(usedPrice) > 0 THEN PStr(usedPrice[1]) ELSE PStr(<<>>),
                    qlt |-> "used"]
              ELSE [price |-> PNone, qlt |-> "None"]
        p2 == IF Len(newQty) > 0 /\ newQty[1] # "" /\ newQty[1] # "0"
              THEN LET q == IF Len(usedPrice) > 0 THEN PStr(usedPrice[1]) ELSE PNone IN
                   IF PTruthy(p1.price) /\ PTruthy(q) /\ StrLt(q.s, p1.price.s)
                   THEN [price |-> q, qlt |-> "new"]
                   ELSE p1
              ELSE p1
    IN [url |-> PyStr("http://www.anrdoezrs.net/links/" \o AffiliateId("betterworldbooks")
                      \o "/type/dlg/http://www.betterworldbooks.com/-id-" \o isbn \o ".aspx"),
        price |-> IF PTruthy(p2.price) /\ p2.qlt # "None"
                  THEN PyStr("$" \o DigStr(p2.price.s) \o " (" \o p2.qlt \o ")")
                  ELSE PyNone,
        price_amt |-> IF p2.price.none THEN PyNone ELSE PyStr(DigStr(p2.price.s)),
        qlt |-> StrOrNone(p2.qlt)]

\* A product whose only varying part is its offer summary.
AmazonProductWith(o) ==
    [asin |-> "0140328726", title |-> "Matilda", authors |-> <<"Roald Dahl">>,
     pages |-> "240", languages |-> <<"English">>, cover |-> "None",
     pgroup |-> "Book", pubdate |-> NoDate, binding |-> "None",
     edition |-> "None", publisher |-> "None", isbn |-> <<>>, offer |-> o]

NoBwb == [uq |-> <<>>, nq |-> <<>>, up |-> <<>>, np |-> <<>>]

PriceInputs ==
    {[vendor |-> "amazon", bwb |-> NoBwb,
      offer |-> [present |-> TRUE, tnew |-> tn, tused |-> tu, tcoll |-> "0",
                 used |-> u, new |-> n, coll |-> "None", offers |-> "None"]] :
        tn \in {"0", "1"}, tu \in {"0", "1"}, u \in {"None", "300", "500", "1250"},
        n \in {"None", "300", "500"}}
    \cup
    {[vendor |-> "bwb", offer |-> NoOffer,
      bwb |-> [uq |-> uq, nq |-> nq, up |-> up, np |-> np]] :
        uq \in {<<>>, <<"0">>, <<"1">>}, nq \in {<<>>, <<"0">>, <<"1">>},
        up \in {<<>>, <<<<5>>>>, <<<<1, 2>>>>, <<<<3>>>>},
        np \in {<<>>, <<<<5>>>>, <<<<1, 2>>>>, <<<<3>>>>}}

InitPrice ==
    /\ cache = [k \in Keys |-> Absent]
    /\ hist = <<>>
    /\ pc = [p \in Procs |-> AmzIdle]
    /\ bcache = Absent
    /\ bhist = <<>>
    /\ bpc = [p \in Procs |-> AmzIdle]
    /\ clk = 1
    /\ inp \in PriceInputs
    /\ out = [status |-> "pending", val |-> <<>>]

AmazonSerialize ==
    /\ out.status = "pending"
    /\ inp.vendor = "amazon"
    /\ out' = [status |-> "ok", val |-> SerializeAmazonProduct(AmazonProductWith(inp.offer))]
    /\ UNCHANGED <<cache, hist, pc, bcache, bhist, bpc, clk, inp>>

BwbAnswer ==
    /\ out.status = "pending"
    /\ inp.vendor = "bwb"
    /\ out' = [status |-> "ok",
               val |-> BwbPriceSelect("0140328726", inp.bwb.uq, inp.bwb.nq,
                                      inp.bwb.up, inp.bwb.np)]
    /\ UNCHANGED <<cache, hist, pc, bcache, bhist, bpc, clk, inp>>

NextPrice == AmazonSerialize \/ BwbAnswer

SpecPrice == InitPrice /\ [][NextPrice]_vars

\* C4 (as stated): a BWB fetch through cached_get_betterworldbooks_metadata
\* ending in an HTTPError (throttling, unavailable, malformed response) is
\* never cached: no error value is stored, and the next call fetches again.
C4_TransientNotCached ==
    /\ bcache # "error_dict"
    /\ \A i, j \in 1..Len(bhist) :
         /\ i < j
         /\ bhist[i].kind = "cached" /\ bhist[j].kind = "cached"
         /\ bhist[i].fetched
         /\ bhist[i].resp \in {"http_json", "http_nonjson"}
         /\ bhist[i].end >= 0 /\ bhist[i].end < bhist[j].start
         /\ \A m \in (i+1)..(j-1) : bhist[m].kind = "public"
         => bhist[j].before = Absent

\* C7 (as stated): get_amazon_metadata and get_betterworldbooks_metadata
\* never raise: every lookup ends with None or a dict.
C7_LookupsNeverRaise ==
    /\ \A i \in 1..Len(hist) : hist[i].pub # Raised
    /\ \A i \in 1..Len(bhist) : bhist[i].kind = "public" => bhist[i].pub # Raised

\* C8 (as stated): concurrent calls with identical arguments are serialized:
\* at most one fetch of the vendor for a key is in flight at any time.
C8_SerializedFetches == \A k \in Keys : Cardinality(InFlight(k)) <= 1

\* C9: a 10-character ISBN yields isbn_10 = [isbn] and isbn_13 =
\* [isbn_10_to_isbn_13(isbn)]; a 13-character ISBN yields isbn_13 = [isbn],
\* and isbn_10 = [isbn_13_to_isbn_10(isbn)] exactly when it starts with 978.
C9_IsbnDerivation ==
    out.status = "ok" =>
        LET i == inp.isbn
            d == out.val
        IN /\ Len(i) = 10 =>
                /\ "isbn_10" \in DOMAIN d /\ "isbn_13" \in DOMAIN d
                /\ d["isbn_10"] = IsbnStrList(i)
                /\ d["isbn_13"] = IsbnStrList(Isbn10To13(i))
           /\ Len(i) = 13 =>
                /\ "isbn_13" \in DOMAIN d
                /\ d["isbn_13"] = IsbnStrList(i)
                /\ ("isbn_10" \in DOMAIN d) <=> (SubSeq(i, 1, 3) = <<9, 7, 8>>)
                /\ "isbn_10" \in DOMAIN d => d["isbn_10"] = IsbnStrList(Isbn13To10(i))

\* The scenario of the spec: 0140328726 gives isbn_13 9780140328721.
C9_Witness ==
    /\ out.status = "ok"
    /\ inp.isbn = <<0, 1, 4, 0, 3, 2, 8, 7, 2, 6>>
    /\ out.val["isbn_13"] = PyList(<<PyStr("9780140328721")>>)

\* C10 (as stated): every key of the serialized mapping except title has a
\* non-None value.
C10_NoNoneValuesAsStated ==
    out.status = "ok" =>
        \A k \in DOMAIN out.val : IsNone(out.val[k]) => k = "title"

\* Keys _serialize_amazon_product always sets, possibly to None.
NullableKeys == {"title", "price", "price_amt", "qlt", "number_of_pages", "cover",
                 "product_group"}

\* C10 (amended): only the always-set keys price, price_amt, qlt, title,
\* number_of_pages, cover and product_group can be None; the conditionally
\* added keys are omitted when the vendor record lacks them and are never None.
C10_NoNoneValues ==
    out.status = "ok" =>
        LET d == out.val IN
        /\ \A k \in DOMAIN d : IsNone(d[k]) => k \in NullableKeys
        /\ ("physical_format" \in DOMAIN d) <=> TruthyStr(inp.binding)
        /\ ("edition" \in DOMAIN d) <=> TruthyStr(inp.edition)
        /\ ("publishers" \in DOMAIN d) <=> TruthyStr(inp.publisher)
        /\ ("publish_date" \in DOMAIN d) <=> inp.pubdate.present
        /\ ("offer_summary" \in DOMAIN d) <=> inp.offer.present

C10_Witness ==
    /\ out.status = "ok"
    /\ IsNone(out.val["price"])
    /\ IsNone(out.val["cover"])
    /\ "physical_format" \notin DOMAIN out.val
    /\ "publish_date" \notin DOMAIN out.val

\* Amount and tier the vendor path selected, and the raw offers it saw:
\* used/new amounts in cents (-1: absent) and quantities.
Sel == out.val
UsedAmt ==
    IF inp.vendor = "amazon"
    THEN IF TruthyStr(inp.offer.used) THEN IntOf(inp.offer.used) ELSE -1
    ELSE IF Len(inp.bwb.up) > 0 THEN Val(inp.bwb.up[1]) * 100 ELSE -1
NewAmt ==
    IF inp.vendor = "amazon"
    THEN IF TruthyStr(inp.offer.new) THEN IntOf(inp.offer.new) ELSE -1
    ELSE IF Len(inp.bwb.np) > 0 THEN Val(inp.bwb.np[1]) * 100 ELSE -1
UsedQtyNonzero ==
    IF inp.vendor = "amazon" THEN IntOf(inp.offer.tused) # 0
    ELSE Len(inp.bwb.uq) > 0 /\ inp.bwb.uq[1] # "0"
NewQtyNonzero ==
    IF inp.vendor = "amazon" THEN IntOf(inp.offer.tnew) # 0
    ELSE Len(inp.bwb.nq) > 0 /\ inp.bwb.nq[1] # "0"
\* The price_amt the path prints for the used or the new offer.
AmtText(which) ==
    IF inp.vendor = "amazon"
    THEN PyStr(FormatAmount(IntOf(IF which = "used" THEN inp.offer.used ELSE inp.offer.new)))
    ELSE PyStr(DigStr(IF which = "used" THEN inp.bwb.up[1] ELSE inp.bwb.np[1]))
Picked(which) == Sel["qlt"] = PyStr(which) /\ Sel["price_amt"] = AmtText(which)

\* C5 (as stated): on both vendor paths, when both used and new amounts are
\* present (for BWB: both tiers in stock), used < new selects used, new < used
\* selects new, and equal amounts select used.
C5_PriceSelection ==
    out.status = "ok" /\ UsedAmt >= 0 /\ NewAmt >= 0
    /\ (inp.vendor = "bwb" => UsedQtyNonzero /\ NewQtyNonzero)
    => /\ UsedAmt < NewAmt => Picked("used")
       /\ NewAmt < UsedAmt => Picked("new")
       /\ UsedAmt = NewAmt => Sel["qlt"] = PyStr("used")

\* C6 (as stated): a tier whose quantity is 0 is never selected; when exactly
\* one tier has a nonzero quantity and a price, that tier is selected.
C6_ZeroQuantityTier ==
    out.status = "ok" =>
        /\ Sel["qlt"] = PyStr("used") => UsedQtyNonzero
        /\ Sel["qlt"] = PyStr("new") => NewQtyNonzero
        /\ (UsedQtyNonzero /\ UsedAmt >= 0) /\ ~(NewQtyNonzero /\ NewAmt >= 0)
             => Picked("used")
        /\ (NewQtyNonzero /\ NewAmt >= 0) /\ ~(UsedQtyNonzero /\ UsedAmt >= 0)
             => Picked("new")

====
